---- MODULE Spec2Model ----
(***************************************************************************)
(* Model of the Generic Interrupt Controller driver                        *)
(* drivers/irqchip/irq-gic.c: the controller table, the bootstrap          *)
(* sequence (distributor and CPU-interface configuration), the interrupt   *)
(* chip operations, the active-interrupt reader and the cascade handler.   *)
(*                                                                         *)
(* Conventions                                                             *)
(*  - a u32 quantity that can wrap (irq_start, irq_offset, a local line    *)
(*    number) is a pair <<hi, lo>> of 16-bit halves, arithmetic modulo     *)
(*    2^32;                                                                *)
(*  - the value of a bit-field register word is the set of its set bit     *)
(*    positions (a subset of 0..31);                                       *)
(*  - a register address is <<region, unit, word>>: the region of the      *)
(*    mapping ("dist", "cpu", "cpu2"), the hardware unit the base address  *)
(*    maps (NullBase for a zero base) and the offset from the base in      *)
(*    32-bit words.                                                        *)
(***************************************************************************)
EXTENDS Integers, Sequences, FiniteSets, TLC

----------------------------------------------------------------------------
(* Register offsets and table capacity (bytes, as in the source).          *)

GIC_CPU_CTRL == 0
GIC_CPU_PRIMASK == 4
GIC_CPU_INTACK == 12
GIC_CPU_EOI == 16
GIC_CPU2_DIR == 0
GIC_DIST_CTRL == 0
GIC_DIST_CTR == 4
GIC_DIST_ENABLE_SET == 256
GIC_DIST_ENABLE_CLEAR == 384
GIC_DIST_PENDING_SET == 512
GIC_DIST_PRI == 1024
GIC_DIST_TARGET == 2048
GIC_DIST_CONFIG == 3072
GIC_DIST_SOFTINT == 3840
GIC_MAX_NR == 2

\* Line-number capacity of the host interrupt framework (board configuration).
CONFIG_HOST_IRQ_COUNT == 128

\* Number of cores of the model; core 0 is the boot core.
NrCpus == 2

Cpus == 0 .. (NrCpus - 1)
BootCpu == 0
Gics == 0 .. (GIC_MAX_NR - 1)
NullBase == -1
NoChip == -1
Bits32 == 0 .. 31

----------------------------------------------------------------------------
(* u32 arithmetic on <<hi, lo>> pairs.                                     *)

W16 == 256 * 256

U32(n) == << (n \div W16) % W16, n % W16 >>

\* a + b modulo 2^32
U32Add(a, b) ==
    LET s == a[2] + b[2]
    IN  << (a[1] + b[1] + (s \div W16)) % W16, s % W16 >>

\* a - b modulo 2^32
U32Sub(a, b) ==
    LET d == a[2] - b[2]
        borrow == IF d < 0 THEN 1 ELSE 0
    IN  << (a[1] - b[1] - borrow + (2 * W16)) % W16, (d + W16) % W16 >>

U32Lt(a, b) == a[1] < b[1] \/ (a[1] = b[1] /\ a[2] < b[2])

U32Le(a, b) == a = b \/ U32Lt(a, b)

\* x & ~31
U32AndNot31(a) == << a[1], a[2] - (a[2] % 32) >>

\* x / d and x % d for a power of two d <= 2^16 (the quotient fits an integer)
U32Div(a, d) == (a[1] * (W16 \div d)) + (a[2] \div d)

U32Mod(a, d) == a[2] % d

\* the value of a pair known to be below 2^31
U32Nat(a) == (a[1] * W16) + a[2]

UINT_MAX == << W16 - 1, W16 - 1 >>

Min(a, b) == IF a < b THEN a ELSE b

----------------------------------------------------------------------------
(* State.                                                                  *)

VARIABLES
    gic_cnt,      \* number of controllers created
    gic_data,     \* the controller table
    hw,           \* register contents of each hardware unit
    chip_data,    \* host framework: line -> owning controller (NoChip: none)
    per_cpu,      \* host framework: lines marked per-CPU
    handlers,     \* host framework: registered cascade handlers <<line, gic>>
    active_cb,    \* host framework: active-interrupt callback installed
    halted,       \* BUG() was hit
    pc,           \* position of each core
    loc,          \* locals of the operation each core executes
    ret,          \* value returned by the last operation of each core
    trace         \* register accesses and calls of the operation of each core

vars == << gic_cnt, gic_data, hw, chip_data, per_cpu, handlers, active_cb,
           halted, pc, loc, ret, trace >>

host == << chip_data, per_cpu, handlers, active_cb >>

----------------------------------------------------------------------------
(* Hardware: the distributor's register banks.  Bit b of word w of a bank  *)
(* is position 32*w + b.  Words that hold lines 0..31 are banked per core. *)
(* The contents of a part of a bank (its shared words, or the private      *)
(* words of one core) are kept as a default word value together with the   *)
(* words that differ from it.                                              *)

Banks == {"enable", "pri", "target", "config"}

\* bits per line in each bank
BitsPerLine(bank) ==
    CASE bank = "enable" -> 1
      [] bank = "config" -> 2
      [] OTHER -> 8

\* number of words of each bank
BankWords(bank) == (1024 * BitsPerLine(bank)) \div 32

\* number of lines a unit implements, from its line-count field
HwLines(ctr) == Min((ctr + 1) * 32, 1020)

WordPrivate(bank, w) == ((32 * w) \div BitsPerLine(bank)) < 32

\* the bits of word w that belong to implemented lines (the others read as
\* zero and ignore writes)
ImplBits(h, bank, w) ==
    LET n == HwLines(h.ctr) * BitsPerLine(bank)
    IN  IF (32 * w) + 31 < n THEN Bits32
        ELSE IF 32 * w >= n THEN {}
        ELSE 0 .. (n - (32 * w) - 1)

\* the words of the shared (or private) part of a bank that hold
\* implemented lines
PartWords(h, bank, private) ==
    LET first == (32 * BitsPerLine(bank)) \div 32
        last == ((HwLines(h.ctr) * BitsPerLine(bank)) + 31) \div 32
    IN  IF private THEN 0 .. (first - 1) ELSE first .. (last - 1)

EmptyFn == [w \in {} |-> {}]

\* decoding of a distributor word offset: <<bank, port, word>>
DistDecode(a) ==
    CASE a = GIC_DIST_CTRL \div 4 -> << "ctrl", "store", 0 >>
      [] a = GIC_DIST_CTR \div 4 -> << "ctr", "ro", 0 >>
      [] a >= GIC_DIST_ENABLE_SET \div 4 /\ a < GIC_DIST_ENABLE_CLEAR \div 4
           -> << "enable", "set", a - (GIC_DIST_ENABLE_SET \div 4) >>
      [] a >= GIC_DIST_ENABLE_CLEAR \div 4 /\ a < GIC_DIST_PENDING_SET \div 4
           -> << "enable", "clear", a - (GIC_DIST_ENABLE_CLEAR \div 4) >>
      [] a >= GIC_DIST_PRI \div 4 /\ a < GIC_DIST_TARGET \div 4
           -> << "pri", "store", a - (GIC_DIST_PRI \div 4) >>
      [] a >= GIC_DIST_TARGET \div 4 /\ a < GIC_DIST_CONFIG \div 4
           -> << "target", "store", a - (GIC_DIST_TARGET \div 4) >>
      [] a >= GIC_DIST_CONFIG \div 4 /\ a < (GIC_DIST_CONFIG \div 4) + 64
           -> << "config", "store", a - (GIC_DIST_CONFIG \div 4) >>
      [] a = GIC_DIST_SOFTINT \div 4 -> << "softint", "wo", 0 >>
      [] OTHER -> << "none", "none", 0 >>

\* does the access hit one of the modelled bit banks?
InBank(a) == DistDecode(a)[1] \in Banks

\* the part of a bank core c sees for word w
PartOf(h, c, bank, w) ==
    IF WordPrivate(bank, w) THEN h.pv[c][bank] ELSE h.sh[bank]

\* the value of word w of a part
PartRead(h, bank, part, w) ==
    IF w \in DOMAIN part.exc
      THEN part.exc[w]
      ELSE part.dflt \cap ImplBits(h, bank, w)

\* gic_read of word w of a bit bank by core c
ReadWord(h, c, bank, w) == PartRead(h, bank, PartOf(h, c, bank, w), w)

\* the value of a word that held old after val is written through port
WordAfter(port, old, val) ==
    CASE port = "set" -> old \cup val
      [] port = "clear" -> old \ val
      [] OTHER -> val

\* a part after val is written through port to each of its words in ws
PartAfter(h, bank, private, part, port, ws, val) ==
    LET pws == PartWords(h, bank, private)
        covers == pws # {} /\ pws \subseteq ws
        d == IF covers THEN WordAfter(port, part.dflt, val) ELSE part.dflt
        nv(w) == IF w \in ws
                   THEN WordAfter(port, PartRead(h, bank, part, w), val)
                          \cap ImplBits(h, bank, w)
                   ELSE part.exc[w]
        keep == { w \in (DOMAIN part.exc) \cup ws :
                    nv(w) # d \cap ImplBits(h, bank, w) }
    IN  [dflt |-> d, exc |-> [w \in keep |-> nv(w)]]

\* gic_write of val, by core c, to the words of one bank and port among
\* the distributor word offsets as
DistWriteBank(h, c, as, val, bank, port) ==
    LET ws == { DistDecode(a)[3] :
                  a \in { x \in as : DistDecode(x)[1] = bank
                                     /\ DistDecode(x)[2] = port } }
        pw == { w \in ws : WordPrivate(bank, w) }
    IN  IF ws = {}
          THEN h
          ELSE [h EXCEPT
                  !.sh[bank] =
                     IF ws = pw THEN @
                     ELSE PartAfter(h, bank, FALSE, @, port, ws \ pw, val),
                  !.pv[c][bank] =
                     IF pw = {} THEN @
                     ELSE PartAfter(h, bank, TRUE, @, port, pw, val)]

\* gic_write of val, by core c, to every distributor word offset of as
DistWriteAll(h, c, as, val) ==
    LET h1 == DistWriteBank(h, c, as, val, "enable", "set")
        h2 == DistWriteBank(h1, c, as, val, "enable", "clear")
        h3 == DistWriteBank(h2, c, as, val, "pri", "store")
        h4 == DistWriteBank(h3, c, as, val, "target", "store")
        h5 == DistWriteBank(h4, c, as, val, "config", "store")
    IN  IF (GIC_DIST_CTRL \div 4) \in as
          THEN [h5 EXCEPT !.ctrl = IF 0 \in val THEN 1 ELSE 0]
          ELSE h5

\* gic_write(val, base + off) on the distributor mapping of unit u
DistWrite(H, u, c, a, val) ==
    IF u \in Gics THEN [H EXCEPT ![u] = DistWriteAll(@, c, {a}, val)] ELSE H

\* the contents a unit is found with: all bits clear, or all bits set
ResetUnit(ctr, dirty) ==
    LET part == [dflt |-> IF dirty THEN Bits32 ELSE {}, exc |-> EmptyFn]
    IN  [ctr |-> ctr,
         ctrl |-> IF dirty THEN 1 ELSE 0,
         sh |-> [bank \in Banks |-> part],
         pv |-> [c \in Cpus |-> [bank \in Banks |-> part]],
         cpu_ctrl |-> [c \in Cpus |-> 0],
         primask |-> [c \in Cpus |-> 0]]

----------------------------------------------------------------------------
(* Initial state: an empty (zeroed) controller table, no line registered.  *)

ZeroChip ==
    [eoimode |-> FALSE, irq_offset |-> U32(0), gic_irqs |-> 0,
     dist_base |-> NullBase, cpu_base |-> NullBase, cpu2_base |-> NullBase]

\* a returned value: a status code, or a number when code is "value"
Ret(code) == [code |-> code, num |-> U32(0)]

RetNum(n) == [code |-> "value", num |-> n]

NoRet == Ret("none")

IdleLoc ==
    [op |-> "none", snap |-> [g \in Gics |-> ResetUnit(0, FALSE)],
     mask |-> {}, gic |-> 0, irq |-> 0, type |-> "NONE", val |-> {},
     enabled |-> FALSE, cpu |-> 0,
     bit |-> 0, num |-> U32(0), max_irq |-> 0, irq_limit |-> 0,
     irq_start |-> U32(0), boot |-> FALSE, parent |-> FALSE,
     parent_irq |-> 0, resolved |-> FALSE, cascaded |-> FALSE,
     nested |-> "none"]

\* the locals of an operation op that begins: snap keeps the register
\* contents the operation found
OpLoc(op) == [IdleLoc EXCEPT !.op = op, !.snap = hw]

Init ==
    /\ gic_cnt = 0
    /\ gic_data = [g \in Gics |-> ZeroChip]
    /\ hw = [g \in Gics |-> ResetUnit(0, FALSE)]
    /\ chip_data = [n \in 0 .. (CONFIG_HOST_IRQ_COUNT - 1) |-> NoChip]
    /\ per_cpu = {}
    /\ handlers = {}
    /\ active_cb = FALSE
    /\ halted = FALSE
    /\ pc = [c \in Cpus |-> "idle"]
    /\ loc = [c \in Cpus |-> IdleLoc]
    /\ ret = [c \in Cpus |-> NoRet]
    /\ trace = [c \in Cpus |-> << >>]

----------------------------------------------------------------------------
(* Register accesses recorded in trace.                                    *)

\* one access: k is "r", "w", "wmb" or "exec"; bits is the value of a
\* bit-field word, num the value of a numeric register or argument
Acc(k, region, unit, a, bits, num) ==
    [k |-> k, region |-> region, unit |-> unit, a |-> a, bits |-> bits,
     num |-> num]

----------------------------------------------------------------------------
(* Bootstrap: gic_devtree_init, gic_init_bases, gic_dist_init,             *)
(* gic_cpu_init, gic_cascade_irq, gic_secondary_init.                      *)

\* the global number passed on unchanged, as if irq_offset were 0
gic_irq_global(gic, n) == U32(n)

\* #define gic_irq(gic, irq): the local number of global line n
gic_irq(gic, n) == U32Sub(U32(n), gic.irq_offset)

\* irq_start - 1 without the rounding down to a multiple of 32
IrqOffsetUnaligned(irq_start) == U32Sub(irq_start, U32(1))

\* gic->irq_offset = (irq_start - 1) & ~31
IrqOffsetOf(irq_start) == U32AndNot31(U32Sub(irq_start, U32(1)))

\* gic_irqs / max_irq: (field + 1) * 32, at most 1020
LineCount(ctr) ==
    LET n == ((ctr % 32) + 1) * 32
    IN  IF n > 1020 THEN 1020 ELSE n

\* the comparison gic_nr > GIC_MAX_NR in place of gic_nr >= GIC_MAX_NR
TableFullAbove(gic_nr) == gic_nr > GIC_MAX_NR

\* BUG_ON(gic_nr >= GIC_MAX_NR)
TableFull(gic_nr) == gic_nr >= GIC_MAX_NR

\* gic_devtree_init up to the end of the field set-up of gic_init_bases.
\* node: the topology node is present; parent: a parent is given; has: the
\* node has an irq_start attribute; ctr, dirty: what the unit is found with.
GicDevtreeInit(c, nodes, parents, modes, starts, fields, dirt) ==
    /\ ~halted
    /\ pc[c] = "idle"
    /\ \E node \in nodes, parent \in parents, eoimode \in modes,
          has \in BOOLEAN, s \in starts, ctr \in fields, dirty \in dirt :
         LET irq == IF has THEN s ELSE U32(0)
             gic_nr == gic_cnt
         IN  IF ~node
               THEN /\ ret' = [ret EXCEPT ![c] = Ret("VMM_ENODEV")]
                    /\ trace' = [trace EXCEPT ![c] = << >>]
                    /\ pc' = [pc EXCEPT ![c] = "done"]
                    /\ loc' = [loc EXCEPT ![c] = OpLoc("boot")]
                    /\ UNCHANGED << gic_cnt, gic_data, hw, host, halted >>
               ELSE IF TableFull(gic_nr)
                 THEN /\ halted' = TRUE
                      /\ trace' = [trace EXCEPT ![c] = << >>]
                      /\ UNCHANGED << gic_cnt, gic_data, hw, host, pc, loc,
                                      ret >>
                 ELSE /\ hw' = [hw EXCEPT ![gic_nr] = ResetUnit(ctr, dirty)]
                      /\ gic_data' =
                           [gic_data EXCEPT ![gic_nr] =
                              [eoimode |-> eoimode,
                               irq_offset |-> IrqOffsetOf(irq),
                               gic_irqs |-> LineCount(ctr),
                               dist_base |-> gic_nr,
                               cpu_base |-> gic_nr,
                               cpu2_base |-> gic_nr]]
                      /\ loc' = [loc EXCEPT ![c] =
                                   [OpLoc("boot") EXCEPT !.gic = gic_nr,
                                                   !.irq_start = irq,
                                                   !.boot = TRUE,
                                                   !.parent = parent]]
                      /\ pc' = [pc EXCEPT ![c] = "dist_disable"]
                      /\ trace' = [trace EXCEPT ![c] = << >>]
                      /\ ret' = [ret EXCEPT ![c] = NoRet]
                      /\ UNCHANGED << gic_cnt, host, halted >>

\* the word offsets base + off + i * 4 / per, for i = from; i < to; i += step
LoopWords(off, from, to, step, per) ==
    { (off + ((i * 4) \div per)) \div 4 :
        i \in { j \in from .. (to - 1) : (j - from) % step = 0 } }

\* gic_dist_init: disable distribution, find the number of lines
GicDistDisable(c) ==
    /\ ~halted
    /\ pc[c] = "dist_disable"
    /\ LET g == loc[c].gic
           u == gic_data[g].dist_base
       IN  /\ hw' = DistWrite(hw, u, c, GIC_DIST_CTRL \div 4, {})
           /\ loc' = [loc EXCEPT ![c].max_irq = LineCount(hw[u].ctr)]
    /\ pc' = [pc EXCEPT ![c] = "dist_config"]
    /\ UNCHANGED << gic_cnt, gic_data, host, halted, ret, trace >>

\* one of the four initialisation loops of gic_dist_init
DistLoop(c, here, next, off, from, step, per, val) ==
    /\ ~halted
    /\ pc[c] = here
    /\ LET g == loc[c].gic
           u == gic_data[g].dist_base
       IN  hw' = [hw EXCEPT ![u] =
                    DistWriteAll(@, c,
                       LoopWords(off, from, loc[c].max_irq, step, per), val)]
    /\ pc' = [pc EXCEPT ![c] = next]
    /\ UNCHANGED << gic_cnt, gic_data, host, halted, loc, ret, trace >>

\* 0xa0a0a0a0
PriWord == {5, 7, 13, 15, 21, 23, 29, 31}

\* cpumask = 1 << cpu, replicated into the four bytes of a word
CpuMaskWord(c) == {c, c + 8, c + 16, c + 24}

\* all global interrupts level triggered
GicDistConfig(c) ==
    DistLoop(c, "dist_config", "dist_target", GIC_DIST_CONFIG, 32, 16, 16, {})

\* the target loop advancing by 16 lines, as the configuration loop does
GicDistTargetStep16(c) ==
    DistLoop(c, "dist_target", "dist_pri", GIC_DIST_TARGET, 32, 16, 4,
             CpuMaskWord(c))

\* all global interrupts to this CPU only
GicDistTarget(c) ==
    DistLoop(c, "dist_target", "dist_pri", GIC_DIST_TARGET, 32, 4, 4,
             CpuMaskWord(c))

\* priority on all interrupts
GicDistPri(c) ==
    DistLoop(c, "dist_pri", "dist_clear", GIC_DIST_PRI, 0, 4, 4, PriWord)

\* disable all interrupts
GicDistClear(c) ==
    DistLoop(c, "dist_clear", "dist_register", GIC_DIST_ENABLE_CLEAR, 0, 32,
             32, Bits32)

\* irq_offset + max_irq without the limit (W16 stands for a sum of 2^16 or
\* more)
IrqLimitUntruncated(gic, max_irq) ==
    LET lim == U32Add(gic.irq_offset, U32(max_irq))
    IN  IF lim[1] > 0 THEN W16 ELSE lim[2]

\* irq_limit = gic->irq_offset + max_irq, limited to CONFIG_HOST_IRQ_COUNT
IrqLimit(gic, max_irq) ==
    LET lim == U32Add(gic.irq_offset, U32(max_irq))
    IN  IF U32Lt(U32(CONFIG_HOST_IRQ_COUNT), lim)
          THEN CONFIG_HOST_IRQ_COUNT
          ELSE U32Nat(lim)

\* the lines the registration loop of gic_dist_init visits
RegisteredLines(gic, max_irq) ==
    { n \in 0 .. (CONFIG_HOST_IRQ_COUNT - 1) : n < IrqLimit(gic, max_irq) }

\* gic_dist_init: set up the host IRQ subsystem
GicDistRegister(c) ==
    /\ ~halted
    /\ pc[c] = "dist_register"
    /\ LET g == loc[c].gic
           lines == RegisteredLines(gic_data[g], loc[c].max_irq)
       IN  /\ chip_data' = [n \in DOMAIN chip_data |->
                              IF n \in lines THEN g ELSE chip_data[n]]
           /\ per_cpu' = per_cpu \cup { n \in lines : n < 32 }
           /\ loc' = [loc EXCEPT ![c].irq_limit =
                                   IrqLimit(gic_data[g], loc[c].max_irq)]
    /\ pc' = [pc EXCEPT ![c] = "dist_enable"]
    /\ UNCHANGED << gic_cnt, gic_data, hw, handlers, active_cb, halted, ret,
                    trace >>

\* gic_dist_init: enable distribution
GicDistEnable(c) ==
    /\ ~halted
    /\ pc[c] = "dist_enable"
    /\ hw' = DistWrite(hw, gic_data[loc[c].gic].dist_base, c,
                       GIC_DIST_CTRL \div 4, {0})
    /\ pc' = [pc EXCEPT ![c] = "cpu_init"]
    /\ UNCHANGED << gic_cnt, gic_data, host, halted, loc, ret, trace >>

\* gic_cpu_init with the two enable writes exchanged: 0xffff0000 to the
\* enable-set and 0x0000ffff to the enable-clear register
CpuInitWritesSwapped(gic) ==
    << Acc("w", "dist", gic.dist_base, GIC_DIST_ENABLE_SET \div 4,
           16 .. 31, 0),
       Acc("w", "dist", gic.dist_base, GIC_DIST_ENABLE_CLEAR \div 4,
           0 .. 15, 0) >>
    \o [k \in 1 .. 8 |->
          Acc("w", "dist", gic.dist_base,
              (GIC_DIST_PRI + ((((k - 1) * 4) * 4) \div 4)) \div 4,
              PriWord, 0)]
    \o << Acc("w", "cpu", gic.cpu_base, GIC_CPU_PRIMASK \div 4, {}, 240),
          Acc("w", "cpu", gic.cpu_base, GIC_CPU_CTRL \div 4, {},
              IF gic.eoimode THEN 513 ELSE 1) >>

\* the register writes of gic_cpu_init, in program order
CpuInitWrites(gic) ==
    << Acc("w", "dist", gic.dist_base, GIC_DIST_ENABLE_CLEAR \div 4,
           16 .. 31, 0),
       Acc("w", "dist", gic.dist_base, GIC_DIST_ENABLE_SET \div 4,
           0 .. 15, 0) >>
    \o [k \in 1 .. 8 |->
          Acc("w", "dist", gic.dist_base,
              (GIC_DIST_PRI + ((((k - 1) * 4) * 4) \div 4)) \div 4,
              PriWord, 0)]
    \o << Acc("w", "cpu", gic.cpu_base, GIC_CPU_PRIMASK \div 4, {}, 240),
          Acc("w", "cpu", gic.cpu_base, GIC_CPU_CTRL \div 4, {},
              IF gic.eoimode THEN 513 ELSE 1) >>

\* the effect of a sequence of register writes of core c on the hardware
RECURSIVE ApplyWrites(_, _, _)
ApplyWrites(H, c, ws) ==
    IF ws = << >>
      THEN H
      ELSE LET w == Head(ws)
               H1 == IF w.unit \notin Gics \/ w.k # "w"
                       THEN H
                       ELSE IF w.region = "dist"
                         THEN DistWrite(H, w.unit, c, w.a, w.bits)
                         ELSE IF w.region = "cpu"
                                   /\ w.a = GIC_CPU_PRIMASK \div 4
                           THEN [H EXCEPT ![w.unit].primask[c] = w.num]
                           ELSE IF w.region = "cpu"
                                     /\ w.a = GIC_CPU_CTRL \div 4
                             THEN [H EXCEPT ![w.unit].cpu_ctrl[c] = w.num]
                             ELSE H
           IN  ApplyWrites(H1, c, Tail(ws))

\* gic_cpu_init on core c for controller loc[c].gic
GicCpuInit(c) ==
    /\ ~halted
    /\ pc[c] = "cpu_init"
    /\ LET ws == CpuInitWrites(gic_data[loc[c].gic])
       IN  /\ hw' = ApplyWrites(hw, c, ws)
           /\ trace' = [trace EXCEPT ![c] = ws]
    /\ pc' = [pc EXCEPT ![c] = IF loc[c].boot THEN "finish" ELSE "done"]
    /\ ret' = [ret EXCEPT ![c] = IF loc[c].boot THEN ret[c] ELSE Ret("VMM_OK")]
    /\ UNCHANGED << gic_cnt, gic_data, host, halted, loc >>

\* vmm_host_irq_register accepts a line the host framework has
HostIrqRegisterOk(irq) == irq < CONFIG_HOST_IRQ_COUNT

\* the tail of gic_devtree_init: cascade registration or active callback,
\* then gic_cnt++.  pirqs: the values a resolved parent_irq may have.
GicDevtreeFinish(c, pirqs) ==
    /\ ~halted
    /\ pc[c] = "finish"
    /\ \E resolved \in BOOLEAN, p \in pirqs :
         LET irq == IF resolved THEN p ELSE 1020
             done == /\ gic_cnt' = gic_cnt + 1
                     /\ pc' = [pc EXCEPT ![c] = "done"]
                     /\ ret' = [ret EXCEPT ![c] = Ret("VMM_OK")]
                     /\ UNCHANGED halted
             called == [loc EXCEPT ![c].parent_irq = irq,
                                   ![c].resolved = resolved,
                                   ![c].cascaded = TRUE]
         IN  IF ~loc[c].parent
               THEN /\ active_cb' = TRUE
                    /\ done
                    /\ UNCHANGED << handlers, loc >>
               ELSE IF TableFull(gic_cnt) \/ ~HostIrqRegisterOk(irq)
                 THEN /\ halted' = TRUE
                      /\ loc' = called
                      /\ UNCHANGED << gic_cnt, handlers, active_cb, pc,
                                      ret >>
                 ELSE /\ handlers' = handlers \cup {<< irq, gic_cnt >>}
                      /\ loc' = called
                      /\ done
                      /\ UNCHANGED active_cb
    /\ UNCHANGED << gic_data, hw, chip_data, per_cpu, trace >>

\* gic_secondary_init(0) on a core other than the boot core
\* a bootstrap on another core that enters gic_dist_init
GicSecondaryInitDist(c) ==
    /\ ~halted
    /\ pc[c] = "idle"
    /\ c # BootCpu
    /\ loc' = [loc EXCEPT ![c] = [OpLoc("secondary") EXCEPT !.gic = 0]]
    /\ pc' = [pc EXCEPT ![c] = "dist_disable"]
    /\ trace' = [trace EXCEPT ![c] = << >>]
    /\ ret' = [ret EXCEPT ![c] = NoRet]
    /\ UNCHANGED << gic_cnt, gic_data, hw, host, halted >>

\* gic_secondary_init(0)
GicSecondaryInit(c) ==
    /\ ~halted
    /\ pc[c] = "idle"
    /\ c # BootCpu
    /\ loc' = [loc EXCEPT ![c] = [OpLoc("secondary") EXCEPT !.gic = 0]]
    /\ pc' = [pc EXCEPT ![c] = "cpu_init"]
    /\ trace' = [trace EXCEPT ![c] = << >>]
    /\ ret' = [ret EXCEPT ![c] = NoRet]
    /\ UNCHANGED << gic_cnt, gic_data, hw, host, halted >>

\* the steps of a bootstrap in progress on core c
BootStep(c) ==
    \/ GicDistDisable(c)
    \/ GicDistConfig(c)
    \/ GicDistTarget(c)
    \/ GicDistPri(c)
    \/ GicDistClear(c)
    \/ GicDistRegister(c)
    \/ GicDistEnable(c)
    \/ GicCpuInit(c)

\* the caller of core c takes the result of the operation that returned
Return(c) ==
    /\ ~halted
    /\ pc[c] = "done"
    /\ pc' = [pc EXCEPT ![c] = "idle"]
    /\ loc' = [loc EXCEPT ![c] = IdleLoc]
    /\ ret' = [ret EXCEPT ![c] = NoRet]
    /\ trace' = [trace EXCEPT ![c] = << >>]
    /\ UNCHANGED << gic_cnt, gic_data, hw, host, halted >>

AllIdle == \A c \in Cpus : pc[c] = "idle"

----------------------------------------------------------------------------
(* Interrupt chip operations.  The host framework invokes them on a line   *)
(* that has a chip; the controller is recovered from the line's chip data. *)

\* vmm_host_irq_get_chip_data(irq)
ChipOf(n) == gic_data[chip_data[n]]

HasChip(n) == n \in DOMAIN chip_data /\ chip_data[n] # NoChip

\* the values a read outside the modelled register banks may return
StrayValues == { {}, Bits32 }

\* gic_read(base + off) of a distributor bit bank by core c; stray is the
\* value returned when the offset is outside the banks of a mapped unit
DistRead(H, u, c, a, stray) ==
    IF u \in Gics /\ InBank(a)
      THEN ReadWord(H[u], c, DistDecode(a)[1], DistDecode(a)[3])
      ELSE stray

\* an operation of core c begins
Begin(c) == ~halted /\ pc[c] = "idle"

\* core c is at label here of its operation
At(c, here) == ~halted /\ pc[c] = here

\* gic_eoi_irq: the write to the EOI register
GicEoiIrq(c, n) ==
    /\ Begin(c)
    /\ HasChip(n)
    /\ LET gic == ChipOf(n)
           irq_no == gic_irq(gic, n)
       IN  /\ trace' = [trace EXCEPT ![c] =
                          << Acc("w", "cpu", gic.cpu_base, GIC_CPU_EOI \div 4,
                                 {}, irq_no) >>]
           /\ loc' = [loc EXCEPT ![c] =
                        [OpLoc("eoi") EXCEPT !.gic = chip_data[n], !.irq = n,
                                        !.num = irq_no]]
           /\ pc' = [pc EXCEPT ![c] = IF gic.eoimode THEN "eoi_dir"
                                                     ELSE "done"]
           /\ ret' = [ret EXCEPT ![c] = IF gic.eoimode THEN NoRet
                                                       ELSE Ret("void")]
    /\ UNCHANGED << gic_cnt, gic_data, hw, host, halted >>

\* gic_eoi_irq in split mode: the write to the deactivate register
GicEoiDir(c) ==
    /\ At(c, "eoi_dir")
    /\ trace' = [trace EXCEPT ![c] =
                   Append(@, Acc("w", "cpu2", gic_data[loc[c].gic].cpu2_base,
                                 GIC_CPU2_DIR \div 4, {}, loc[c].num))]
    /\ pc' = [pc EXCEPT ![c] = "done"]
    /\ ret' = [ret EXCEPT ![c] = Ret("void")]
    /\ UNCHANGED << gic_cnt, gic_data, hw, host, halted, loc >>

\* the word offset base + bank + (gic_irq(gic, irq) / per) * 4
LineWord(bank, gic, n, per) == (bank \div 4) + U32Div(gic_irq(gic, n), per)

\* gic_mask_irq / gic_unmask_irq: one write of 1 << (irq->num % 32)
EnableWrite(c, n, bank, op) ==
    /\ Begin(c)
    /\ HasChip(n)
    /\ LET gic == ChipOf(n)
           a == LineWord(bank, gic, n, 32)
       IN  /\ hw' = DistWrite(hw, gic.dist_base, c, a, {n % 32})
           /\ trace' = [trace EXCEPT ![c] =
                          << Acc("w", "dist", gic.dist_base, a, {n % 32},
                                 U32(0)) >>]
           /\ loc' = [loc EXCEPT ![c] =
                        [OpLoc(op) EXCEPT !.gic = chip_data[n], !.irq = n]]
    /\ ret' = [ret EXCEPT ![c] = Ret("void")]
    /\ pc' = [pc EXCEPT ![c] = "done"]
    /\ UNCHANGED << gic_cnt, gic_data, host, halted >>

GicMaskIrq(c, n) == EnableWrite(c, n, GIC_DIST_ENABLE_CLEAR, "mask")

GicUnmaskIrq(c, n) == EnableWrite(c, n, GIC_DIST_ENABLE_SET, "unmask")

\* confmask = 0x2 << ((gicirq % 16) * 2), as a bit position
ConfBit(gicirq) == (U32Mod(gicirq, 16) * 2) + 1

\* enablemask = 1 << (gicirq % 32), as a bit position
EnableBit(gicirq) == U32Mod(gicirq, 32)

\* the check of the type left out
SetTypeAcceptsAnyType(gicirq, type) == ~U32Lt(gicirq, U32(16))

\* may gic_set_type change the configuration of local line gicirq to type?
SetTypeAccepts(gicirq, type) ==
    /\ ~U32Lt(gicirq, U32(16))
    /\ type \in {"LEVEL_HIGH", "EDGE_RISING"}

\* the configuration word changed at the position of the enable mask
ConfValueAtEnableBit(val, gicirq, type) ==
    IF type = "LEVEL_HIGH" THEN val \ {EnableBit(gicirq)}
    ELSE IF type = "EDGE_RISING" THEN val \cup {EnableBit(gicirq)}
    ELSE val

\* the configuration word gic_set_type writes back
ConfValue(val, gicirq, type) ==
    IF type = "LEVEL_HIGH" THEN val \ {ConfBit(gicirq)}
    ELSE IF type = "EDGE_RISING" THEN val \cup {ConfBit(gicirq)}
    ELSE val

\* gic_set_type: the argument checks and the read of the configuration word
GicSetType(c, n, type) ==
    /\ Begin(c)
    /\ HasChip(n)
    /\ LET gic == ChipOf(n)
           gicirq == gic_irq(gic, n)
           a == LineWord(GIC_DIST_CONFIG, gic, n, 16)
       IN  IF ~SetTypeAccepts(gicirq, type)
             THEN /\ ret' = [ret EXCEPT ![c] = Ret("VMM_EINVALID")]
                  /\ trace' = [trace EXCEPT ![c] = << >>]
                  /\ loc' = [loc EXCEPT ![c] =
                               [OpLoc("set_type") EXCEPT !.gic = chip_data[n],
                                               !.irq = n, !.type = type]]
                  /\ pc' = [pc EXCEPT ![c] = "done"]
             ELSE \E stray \in StrayValues :
                    LET val == DistRead(hw, gic.dist_base, c, a, stray)
                    IN  /\ trace' = [trace EXCEPT ![c] =
                                       << Acc("r", "dist", gic.dist_base, a,
                                              val, U32(0)) >>]
                        /\ loc' = [loc EXCEPT ![c] =
                                     [OpLoc("set_type") EXCEPT
                                        !.gic = chip_data[n], !.irq = n,
                                        !.type = type, !.num = gicirq,
                                        !.val = ConfValue(val, gicirq, type)]]
                        /\ pc' = [pc EXCEPT ![c] = "type_enabled"]
                        /\ ret' = [ret EXCEPT ![c] = NoRet]
    /\ UNCHANGED << gic_cnt, gic_data, hw, host, halted >>

\* gic_set_type: is the line enabled?
GicSetTypeEnabled(c) ==
    /\ At(c, "type_enabled")
    /\ LET gic == gic_data[loc[c].gic]
           a == LineWord(GIC_DIST_ENABLE_SET, gic, loc[c].irq, 32)
       IN  \E stray \in StrayValues :
             LET en == DistRead(hw, gic.dist_base, c, a, stray)
             IN  /\ trace' = [trace EXCEPT ![c] =
                                Append(@, Acc("r", "dist", gic.dist_base, a,
                                              en, U32(0)))]
                 /\ pc' = [pc EXCEPT ![c] =
                             IF EnableBit(loc[c].num) \in en
                               THEN "type_disable" ELSE "type_config"]
    /\ UNCHANGED << gic_cnt, gic_data, hw, host, halted, loc, ret >>

\* one write of gic_set_type by core c at label here, then label next
SetTypeWrite(c, here, next, a, val, enabled) ==
    /\ At(c, here)
    /\ LET gic == gic_data[loc[c].gic]
       IN  /\ hw' = DistWrite(hw, gic.dist_base, c, a, val)
           /\ trace' = [trace EXCEPT ![c] =
                          Append(@, Acc("w", "dist", gic.dist_base, a, val,
                                        U32(0)))]
    /\ loc' = [loc EXCEPT ![c].enabled = enabled]
    /\ pc' = [pc EXCEPT ![c] = next]
    /\ ret' = [ret EXCEPT ![c] = IF next = "done" THEN Ret("VMM_OK") ELSE @]
    /\ UNCHANGED << gic_cnt, gic_data, host, halted >>

\* gic_set_type: disable the interrupt before changing the configuration
GicSetTypeDisable(c) ==
    SetTypeWrite(c, "type_disable", "type_config",
                 LineWord(GIC_DIST_ENABLE_CLEAR, gic_data[loc[c].gic],
                          loc[c].irq, 32),
                 {EnableBit(loc[c].num)}, TRUE)

\* gic_set_type: write the configuration word
GicSetTypeConfig(c) ==
    SetTypeWrite(c, "type_config",
                 IF loc[c].enabled THEN "type_restore" ELSE "done",
                 LineWord(GIC_DIST_CONFIG, gic_data[loc[c].gic],
                          loc[c].irq, 16),
                 loc[c].val, loc[c].enabled)

\* the last write going to the enable-clear register once more
GicSetTypeRestoreClear(c) ==
    SetTypeWrite(c, "type_restore", "done",
                 LineWord(GIC_DIST_ENABLE_CLEAR, gic_data[loc[c].gic],
                          loc[c].irq, 32),
                 {EnableBit(loc[c].num)}, loc[c].enabled)

\* gic_set_type: enable the interrupt again
GicSetTypeRestore(c) ==
    SetTypeWrite(c, "type_restore", "done",
                 LineWord(GIC_DIST_ENABLE_SET, gic_data[loc[c].gic],
                          loc[c].irq, 32),
                 {EnableBit(loc[c].num)}, loc[c].enabled)

\* the labels inside gic_set_type: it takes no lock and leaves interrupts
\* as they are
SetTypeLabels == {"type_enabled", "type_disable", "type_config",
                  "type_restore"}

\* gic_mask_irq / gic_unmask_irq of the line being configured, called from
\* an interrupt that core c takes inside gic_set_type; the call runs to
\* completion before gic_set_type goes on
NestedEnableWrite(c, bank, op) ==
    /\ ~halted
    /\ pc[c] \in SetTypeLabels
    /\ loc[c].nested = "none"
    /\ LET gic == gic_data[loc[c].gic]
           n == loc[c].irq
           a == LineWord(bank, gic, n, 32)
       IN  /\ hw' = DistWrite(hw, gic.dist_base, c, a, {n % 32})
           /\ trace' = [trace EXCEPT ![c] =
                          Append(@, Acc("w", "dist", gic.dist_base, a,
                                        {n % 32}, U32(0)))]
    /\ loc' = [loc EXCEPT ![c].nested = op]
    /\ UNCHANGED << gic_cnt, gic_data, host, halted, pc, ret >>

\* number of bits of a CPU mask
NrCpuBits == 9

\* vmm_cpumask_first: the lowest core of the mask, the number of bits of
\* the mask when it is empty
vmm_cpumask_first(mask) ==
    IF mask = {}
      THEN NrCpuBits
      ELSE CHOOSE i \in mask : \A j \in mask : i <= j

\* the comparison cpu > 8 in place of cpu >= 8
AffinityAcceptsCore8(mask) == vmm_cpumask_first(mask) <= 8

\* may gic_set_affinity route a line to the first core of the mask?
AffinityAccepts(mask) == vmm_cpumask_first(mask) < 8

\* mask = 0xff << shift
ByteLane(shift) == shift .. (shift + 7)

\* gic_set_affinity: the argument check and the read of the target word
GicSetAffinity(c, n, mask) ==
    /\ Begin(c)
    /\ HasChip(n)
    /\ LET gic == ChipOf(n)
           shift == (n % 4) * 8
           cpu == vmm_cpumask_first(mask)
           a == LineWord(GIC_DIST_TARGET, gic, n, 4)
       IN  IF ~AffinityAccepts(mask)
             THEN /\ ret' = [ret EXCEPT ![c] = Ret("VMM_EINVALID")]
                  /\ trace' = [trace EXCEPT ![c] = << >>]
                  /\ loc' = [loc EXCEPT ![c] =
                               [OpLoc("set_affinity") EXCEPT
                                  !.gic = chip_data[n], !.irq = n,
                                  !.cpu = cpu, !.mask = mask]]
                  /\ pc' = [pc EXCEPT ![c] = "done"]
             ELSE \E stray \in StrayValues :
                    LET val == DistRead(hw, gic.dist_base, c, a, stray)
                    IN  /\ trace' = [trace EXCEPT ![c] =
                                       << Acc("r", "dist", gic.dist_base, a,
                                              val, U32(0)) >>]
                        /\ loc' = [loc EXCEPT ![c] =
                                     [OpLoc("set_affinity") EXCEPT
                                        !.gic = chip_data[n], !.irq = n,
                                        !.cpu = cpu, !.mask = mask,
                                        !.bit = cpu + shift,
                                        !.val = val \ ByteLane(shift)]]
                        /\ pc' = [pc EXCEPT ![c] = "affinity_write"]
                        /\ ret' = [ret EXCEPT ![c] = NoRet]
    /\ UNCHANGED << gic_cnt, gic_data, hw, host, halted >>

\* gic_set_affinity: the write of the target word
GicSetAffinityWrite(c) ==
    /\ At(c, "affinity_write")
    /\ LET gic == gic_data[loc[c].gic]
           a == LineWord(GIC_DIST_TARGET, gic, loc[c].irq, 4)
           val == loc[c].val \cup {loc[c].bit}
       IN  /\ hw' = DistWrite(hw, gic.dist_base, c, a, val)
           /\ trace' = [trace EXCEPT ![c] =
                          Append(@, Acc("w", "dist", gic.dist_base, a, val,
                                        U32(0)))]
    /\ pc' = [pc EXCEPT ![c] = "done"]
    /\ ret' = [ret EXCEPT ![c] = Ret("VMM_OK")]
    /\ UNCHANGED << gic_cnt, gic_data, host, halted, loc >>

\* the number whose set bits are those of mask
RECURSIVE MaskNum(_)
MaskNum(mask) ==
    IF mask = {}
      THEN 0
      ELSE LET i == CHOOSE x \in mask : TRUE
           IN  (2 ^ i) + MaskNum(mask \ {i})

\* the write going to the controller that owns the line
GicRaiseOwner(c, n, mask) ==
    /\ Begin(c)
    /\ HasChip(n)
    /\ trace' = [trace EXCEPT ![c] =
                   << Acc("wmb", "none", NullBase, 0, {}, U32(0)),
                      Acc("w", "dist", ChipOf(n).dist_base,
                          GIC_DIST_SOFTINT \div 4, {},
                          << MaskNum(mask) % W16, n >>) >>]
    /\ loc' = [loc EXCEPT ![c] =
                 [OpLoc("raise") EXCEPT !.gic = chip_data[n], !.irq = n,
                                        !.mask = mask]]
    /\ ret' = [ret EXCEPT ![c] = Ret("void")]
    /\ pc' = [pc EXCEPT ![c] = "done"]
    /\ UNCHANGED << gic_cnt, gic_data, hw, host, halted >>

\* gic_raise: the barrier, then the write of map << 16 | irq->num to the
\* software-interrupt register of controller 0
GicRaise(c, n, mask) ==
    /\ Begin(c)
    /\ HasChip(n)
    /\ trace' = [trace EXCEPT ![c] =
                   << Acc("wmb", "none", NullBase, 0, {}, U32(0)),
                      Acc("w", "dist", gic_data[0].dist_base,
                          GIC_DIST_SOFTINT \div 4, {},
                          << MaskNum(mask) % W16, n >>) >>]
    /\ loc' = [loc EXCEPT ![c] =
                 [OpLoc("raise") EXCEPT !.gic = chip_data[n], !.irq = n,
                                        !.mask = mask]]
    /\ ret' = [ret EXCEPT ![c] = Ret("void")]
    /\ pc' = [pc EXCEPT ![c] = "done"]
    /\ UNCHANGED << gic_cnt, gic_data, hw, host, halted >>

----------------------------------------------------------------------------
(* Active-interrupt reader and cascade handler.  raw is the value the      *)
(* acknowledge register returns.                                           *)

\* gic_read(... + GIC_CPU_INTACK) & 0x3FF
AckId(raw) == raw % 1024

\* the comparison ret <= 1021 in place of ret < 1021
ActiveIrqOfUpTo1021(raw) ==
    IF AckId(raw) <= 1021
      THEN U32Add(U32(AckId(raw)), gic_data[0].irq_offset)
      ELSE UINT_MAX

\* the value gic_active_irq returns for the acknowledge value raw
ActiveIrqOf(raw) ==
    IF AckId(raw) < 1021
      THEN U32Add(U32(AckId(raw)), gic_data[0].irq_offset)
      ELSE UINT_MAX

\* gic_active_irq, the callback of the host framework
GicActiveIrq(c, raw) ==
    /\ Begin(c)
    /\ active_cb
    /\ trace' = [trace EXCEPT ![c] =
                   << Acc("r", "cpu", gic_data[0].cpu_base,
                          GIC_CPU_INTACK \div 4, {}, U32(raw)) >>]
    /\ loc' = [loc EXCEPT ![c] = [OpLoc("active") EXCEPT !.num = U32(raw)]]
    /\ ret' = [ret EXCEPT ![c] = RetNum(ActiveIrqOf(raw))]
    /\ pc' = [pc EXCEPT ![c] = "done"]
    /\ UNCHANGED << gic_cnt, gic_data, hw, host, halted >>

\* the lower limit 16 in place of 32
CascadeDispatchesFrom16(id) == 16 <= id /\ id <= 1020

\* does gic_handle_cascade_irq dispatch the child's local line?
CascadeDispatches(id) == 32 <= id /\ id <= 1020

\* the calls gic_handle_cascade_irq makes for the acknowledge value raw
CascadeCalls(gic, raw) ==
    IF AckId(raw) # 1023 /\ CascadeDispatches(AckId(raw))
      THEN << Acc("exec", "host", NullBase, 0, {},
                  U32Add(U32(AckId(raw)), gic.irq_offset)) >>
      ELSE << >>

\* the value gic_handle_cascade_irq returns for the acknowledge value raw
CascadeReturn(raw) ==
    IF AckId(raw) = 1023 THEN "VMM_IRQ_NONE" ELSE "VMM_IRQ_HANDLED"

\* gic_handle_cascade_irq(irq, dev) for a registered handler <<irq, dev>>
GicHandleCascadeIrq(c, h, raw) ==
    /\ Begin(c)
    /\ h \in handlers
    /\ LET gic == gic_data[h[2]]
       IN  trace' = [trace EXCEPT ![c] =
                       << Acc("r", "cpu", gic.cpu_base, GIC_CPU_INTACK \div 4,
                              {}, U32(raw)) >>
                       \o CascadeCalls(gic, raw)]
    /\ loc' = [loc EXCEPT ![c] =
                 [OpLoc("cascade") EXCEPT !.gic = h[2], !.irq = h[1],
                                 !.num = U32(raw)]]
    /\ ret' = [ret EXCEPT ![c] = Ret(CascadeReturn(raw))]
    /\ pc' = [pc EXCEPT ![c] = "done"]
    /\ UNCHANGED << gic_cnt, gic_data, hw, host, halted >>

----------------------------------------------------------------------------
(* Bootstrap alone, over a wide range of irq_start hints and every value   *)
(* of the line-count field.                                                *)

\* the first controller is probed with every value of the line-count field
\* and hints across the 32-bit range, a later one with one of each
BootStarts ==
    IF gic_cnt = 0
      THEN { U32(0), U32(1), U32(33), << 32768, 0 >>, << W16 - 1, W16 - 1 >> }
      ELSE { U32(65) }

BootFields == IF gic_cnt = 0 THEN 0 .. 31 ELSE {1}

NextBoot ==
    \/ /\ AllIdle
       /\ GicDevtreeInit(BootCpu, BOOLEAN, {FALSE}, {FALSE}, BootStarts,
                         BootFields, {TRUE})
    \/ \E c \in Cpus : BootStep(c)
    \/ GicDevtreeFinish(BootCpu, {50})
    \/ \E c \in Cpus : AllIdle /\ GicSecondaryInit(c)
    \/ \E c \in Cpus : Return(c)

SpecBoot == Init /\ [][NextBoot]_vars

\* the controllers gic_init_bases has set up
Created == { g \in Gics : gic_data[g].dist_base # NullBase }

\* the cores in gic_dist_init or later in a bootstrap, past the computation
\* of irq_limit
PastLimit ==
    { c \in Cpus : /\ loc[c].op = "boot"
                   /\ loc[c].boot
                   /\ pc[c] \in {"dist_enable", "cpu_init", "finish", "done"} }

\* C8: every line n whose chip data is controller g has
\* irq_offset <= n < irq_offset + irq_count: the local number n - irq_offset
\* neither underflows nor reaches the controller's line count.
C8_LinesInRange ==
    \A n \in DOMAIN chip_data :
      chip_data[n] # NoChip =>
        LET gic == gic_data[chip_data[n]]
        IN  /\ U32Le(gic.irq_offset, U32(n))
            /\ U32Lt(gic_irq(gic, n), U32(gic.gic_irqs))

\* C9 as stated: the stored fields of every controller satisfy
\* irq_offset + irq_count <= CONFIG_HOST_IRQ_COUNT.
C9_StoredWithinCapacity ==
    \A g \in Created :
      /\ gic_data[g].irq_offset[1] = 0
      /\ gic_data[g].irq_offset[2] + gic_data[g].gic_irqs
           <= CONFIG_HOST_IRQ_COUNT

\* C9: what bootstrap limits to CONFIG_HOST_IRQ_COUNT is the bound irq_limit
\* of the lines it registers, min(irq_offset + irq_count mod 2^32,
\* CONFIG_HOST_IRQ_COUNT); the stored irq_offset and irq_count stay as
\* computed: a multiple of 32 and the hardware's line count.
C9_RegistrationWithinCapacity ==
    \A c \in PastLimit :
      LET gic == gic_data[loc[c].gic]
          sum == U32Add(gic.irq_offset, U32(gic.gic_irqs))
      IN  /\ loc[c].irq_limit <= CONFIG_HOST_IRQ_COUNT
          /\ loc[c].irq_limit =
               (IF sum[1] = 0 THEN Min(sum[2], CONFIG_HOST_IRQ_COUNT)
                              ELSE CONFIG_HOST_IRQ_COUNT)
          /\ gic.irq_offset = IrqOffsetOf(loc[c].irq_start)
          /\ gic.gic_irqs = HwLines(hw[loc[c].gic].ctr)

\* a controller with 1020 lines and irq_start 1: the sum of the stored
\* fields is 1020, the registration stopped at CONFIG_HOST_IRQ_COUNT
C9_Witness ==
    \E c \in PastLimit :
      /\ gic_data[loc[c].gic].irq_offset = U32(0)
      /\ gic_data[loc[c].gic].gic_irqs = 1020
      /\ loc[c].irq_limit = CONFIG_HOST_IRQ_COUNT
      /\ chip_data[CONFIG_HOST_IRQ_COUNT - 1] = loc[c].gic

\* C10: every created controller has irq_offset a multiple of 32 and
\* irq_count <= 1020, whatever the irq_start hint and the line-count field.
C10_OffsetAlignedCountCapped ==
    \A g \in Created :
      /\ U32Mod(gic_data[g].irq_offset, 32) = 0
      /\ gic_data[g].gic_irqs <= 1020

\* the default irq_start 0 wrapped to offset 0xffffffe0, and the line-count
\* field 31 was capped from 1024 to 1020
C10_Witness ==
    \E g \in Created :
      /\ g < gic_cnt
      /\ gic_data[g].irq_offset = << W16 - 1, W16 - 32 >>
      /\ gic_data[g].gic_irqs = 1020

\* the cores whose bootstrap is inside gic_dist_init, after its first write
InDistInit ==
    { c \in Cpus : /\ loc[c].op = "boot"
                   /\ pc[c] \in {"dist_config", "dist_target", "dist_pri",
                                 "dist_clear", "dist_register",
                                 "dist_enable"} }

\* the cores whose bootstrap has just completed gic_dist_init
DistInitDone == { c \in Cpus : loc[c].op = "boot" /\ pc[c] = "cpu_init" }

\* the byte of local line l in a word with one byte per line
LineByte(word, l) ==
    { b - ((l % 4) * 8) : b \in word \cap ByteLane((l % 4) * 8) }

\* C12: when gic_dist_init completes on a controller with N lines, every
\* line l with 32 <= l < N is level triggered, is routed to the
\* initialising core alone, has priority 0xa0 and is masked, and
\* distribution is enabled; from the first write to the last distribution
\* is disabled.
C12_DistInitResult ==
    /\ \A c \in InDistInit : hw[gic_data[loc[c].gic].dist_base].ctrl = 0
    /\ \A c \in DistInitDone :
         LET h == hw[gic_data[loc[c].gic].dist_base]
             N == Min(32 * ((h.ctr % 32) + 1), 1020)
         IN  /\ h.ctrl = 1
             /\ \A l \in 32 .. (N - 1), d \in Cpus :
                  /\ ((2 * (l % 16)) + 1)
                       \notin ReadWord(h, d, "config", l \div 16)
                  /\ LineByte(ReadWord(h, d, "target", l \div 4), l) = {c}
                  /\ LineByte(ReadWord(h, d, "pri", l \div 4), l) = {5, 7}
                  /\ (l % 32) \notin ReadWord(h, d, "enable", l \div 32)

\* gic_dist_init completed on a unit with 1020 lines that was found with
\* every bit set (the banked words of another core still are): line 1019 is
\* masked and routed to the boot core
C12_Witness ==
    \E c \in DistInitDone :
      LET h == hw[gic_data[loc[c].gic].dist_base]
      IN  /\ h.ctr = 31
          /\ h.ctrl = 1
          /\ LineByte(ReadWord(h, c, "target", 254), 1019) = {c}
          /\ 27 \notin ReadWord(h, c, "enable", 31)
          /\ \E d \in Cpus \ {c} : ReadWord(h, d, "enable", 0) = Bits32

----------------------------------------------------------------------------
(* Interrupt flow: bootstrap of a primary and a second (cascaded or        *)
(* primary) controller, then acknowledge, cascade dispatch and             *)
(* end-of-interrupt, one operation at a time.                              *)

FlowStarts == IF gic_cnt = 0 THEN { U32(0), U32(33) } ELSE { U32(65) }

FlowParents == IF gic_cnt = 0 THEN {FALSE} ELSE BOOLEAN

FlowModes == IF gic_cnt = 0 THEN BOOLEAN ELSE {TRUE}

\* values of the acknowledge register core c reads: on the boot core every
\* interrupt ID, on the others the IDs around 16, 32, 1020 and 1023; on
\* all of them some with a source-CPU field above the ID
AckRaws(c) ==
    (IF c = BootCpu
       THEN 0 .. 1023
       ELSE (14 .. 33) \cup {512} \cup (1018 .. 1023))
      \cup {1024 + 8, 1024 + 33, 2048 + 1023, (7 * 1024) + 1020}

EoiLines == {0, 31, 40, 64, 97}

NextFlow ==
    \/ /\ AllIdle
       /\ GicDevtreeInit(BootCpu, {TRUE}, FlowParents, FlowModes,
                         FlowStarts, {1}, {TRUE})
    \/ \E c \in Cpus : BootStep(c)
    \/ GicDevtreeFinish(BootCpu, {50})
    \/ \E c \in Cpus : \E raw \in AckRaws(c) :
         AllIdle /\ GicActiveIrq(c, raw)
    \/ \E c \in Cpus, h \in handlers : \E raw \in AckRaws(c) :
         AllIdle /\ GicHandleCascadeIrq(c, h, raw)
    \/ \E c \in Cpus, n \in EoiLines : AllIdle /\ GicEoiIrq(c, n)
    \/ \E c \in Cpus : GicEoiDir(c)
    \/ \E c \in Cpus : Return(c)

SpecFlow == Init /\ [][NextFlow]_vars

\* the operation op of core c has returned
Returned(c, op) == loc[c].op = op /\ pc[c] = "done"

\* the accesses of kind k in the trace of core c
Accesses(c, k) == SelectSeq(trace[c], LAMBDA e : e.k = k)

\* C1: end_of_interrupt issues exactly two register writes in split mode,
\* first to the EOI register of the CPU interface and then to the deactivate
\* register of the secondary CPU interface, both with the local line number
\* (global number minus irq_offset), and exactly one write, to the EOI
\* register, otherwise; it makes no other register access.
C1_EoiWrites ==
    \A c \in Cpus :
      Returned(c, "eoi") =>
        LET gic == gic_data[loc[c].gic]
            local == U32Sub(U32(loc[c].irq), gic.irq_offset)
            eoi == [k |-> "w", region |-> "cpu", unit |-> gic.cpu_base,
                    a |-> GIC_CPU_EOI \div 4, bits |-> {}, num |-> local]
            dir == [k |-> "w", region |-> "cpu2", unit |-> gic.cpu2_base,
                    a |-> GIC_CPU2_DIR \div 4, bits |-> {}, num |-> local]
        IN  /\ trace[c] = IF gic.eoimode THEN << eoi, dir >> ELSE << eoi >>
            /\ hw = loc[c].snap

\* a split-mode end_of_interrupt of line 40 of a controller with offset 32
\* has written 8 to both registers
C1_Witness ==
    \E c \in Cpus :
      /\ Returned(c, "eoi")
      /\ gic_data[loc[c].gic].eoimode
      /\ loc[c].irq = 40
      /\ Len(trace[c]) = 2
      /\ trace[c][1].num = U32(8)
      /\ trace[c][2].num = U32(8)

\* C2: the active-interrupt read returns UINT_MAX for an acknowledge value
\* in 1021..1023 and the value plus the irq_offset of controller 0 (as a
\* u32) for a value in 0..1020, and reads only the acknowledge register of
\* controller 0.
C2_ActiveIrq ==
    \A c \in Cpus :
      Returned(c, "active") =>
        LET v == U32Nat(loc[c].num) % 1024
        IN  /\ ret[c].code = "value"
            /\ v \in 1021 .. 1023 => ret[c].num = UINT_MAX
            /\ v \in 0 .. 1020 =>
                 ret[c].num = U32Add(U32(v), gic_data[0].irq_offset)
            /\ \A i \in 1 .. Len(trace[c]) :
                 /\ trace[c][i].k = "r"
                 /\ trace[c][i].region = "cpu"
                 /\ trace[c][i].unit = gic_data[0].cpu_base
                 /\ trace[c][i].a = GIC_CPU_INTACK \div 4

\* with two controllers present, acknowledge value 8 was read from
\* controller 0, whose offset is 32, and 40 was returned
C2_Witness ==
    \E c \in Cpus :
      /\ Returned(c, "active")
      /\ gic_cnt = 2
      /\ loc[c].num = U32(8)
      /\ gic_data[0].irq_offset = U32(32)
      /\ ret[c].num = U32(40)

\* C3: the cascade handler returns "not handled" without a dispatch call
\* for acknowledge value 1023, "handled" with exactly one dispatch call, of
\* the value plus the child's irq_offset, for a value in 32..1020, and
\* "handled" without a dispatch call for a value in 0..31.
C3_CascadeDispatch ==
    \A c \in Cpus :
      Returned(c, "cascade") =>
        LET v == U32Nat(loc[c].num) % 1024
            child == gic_data[loc[c].gic]
            calls == Accesses(c, "exec")
        IN  /\ v = 1023 =>
                 ret[c].code = "VMM_IRQ_NONE" /\ calls = << >>
            /\ v \in 32 .. 1020 =>
                 /\ ret[c].code = "VMM_IRQ_HANDLED"
                 /\ Len(calls) = 1
                 /\ calls[1].num = U32Add(U32(v), child.irq_offset)
            /\ v \in 0 .. 31 =>
                 ret[c].code = "VMM_IRQ_HANDLED" /\ calls = << >>
            /\ Len(Accesses(c, "r")) = 1
            /\ trace[c][1].unit = child.cpu_base

\* controller 1, with offset 64, acknowledged 33: line 97 was dispatched
C3_Witness ==
    \E c \in Cpus :
      /\ Returned(c, "cascade")
      /\ loc[c].gic = 1
      /\ loc[c].num = U32(33)
      /\ ret[c].code = "VMM_IRQ_HANDLED"
      /\ Accesses(c, "exec") # << >>
      /\ Accesses(c, "exec")[1].num = U32(97)

----------------------------------------------------------------------------
(* Trigger-type configuration: bootstrap, then mask, unmask and            *)
(* set_trigger_type, one operation at a time.                              *)

TypeStarts == IF gic_cnt = 0 THEN { U32(33) } ELSE { U32(65) }

\* with irq_offset 32: local 8 (software-generated), 32 and 65; with
\* irq_offset 64: local 0 and 33
TypeLines == {40, 64, 97}

EnableLines == {64, 97}

TypeArgs == {"LEVEL_HIGH", "EDGE_RISING", "EDGE_FALLING"}

NextType ==
    \/ /\ AllIdle
       /\ GicDevtreeInit(BootCpu, {TRUE}, {FALSE}, {FALSE}, TypeStarts, {1},
                         {TRUE})
    \/ \E c \in Cpus : BootStep(c)
    \/ GicDevtreeFinish(BootCpu, {50})
    \/ \E c \in Cpus, n \in EnableLines : AllIdle /\ GicMaskIrq(c, n)
    \/ \E c \in Cpus, n \in EnableLines : AllIdle /\ GicUnmaskIrq(c, n)
    \/ \E c \in Cpus, n \in TypeLines, type \in TypeArgs :
         AllIdle /\ GicSetType(c, n, type)
    \/ \E c \in Cpus : GicSetTypeEnabled(c)
    \/ \E c \in Cpus : GicSetTypeDisable(c)
    \/ \E c \in Cpus : GicSetTypeConfig(c)
    \/ \E c \in Cpus : GicSetTypeRestore(c)
    \/ \E c \in Cpus : Return(c)

SpecType == Init /\ [][NextType]_vars

\* the local number of the line the operation of core c is about
LocalOf(c) == U32Sub(U32(loc[c].irq), gic_data[loc[c].gic].irq_offset)

\* is the line with local number k of unit h enabled, as core c sees it?
LineEnabled(h, c, k) ==
    /\ U32Lt(k, U32(HwLines(h.ctr)))
    /\ U32Mod(k, 32) \in ReadWord(h, c, "enable", U32Div(k, 32))

\* the words of a bank of unit g as core c reads them
BankOf(H, c, g, bank) ==
    [w \in 0 .. (BankWords(bank) - 1) |-> ReadWord(H[g], c, bank, w)]

\* C4: set_trigger_type of a line with local number >= 32 to level-high or
\* edge-rising returns success and leaves the enable bit of the line, and
\* of every other line, as it was before the call.
C4_EnableRoundTrip ==
    \A c \in Cpus :
      ( /\ Returned(c, "set_type")
        /\ ~U32Lt(LocalOf(c), U32(32))
        /\ loc[c].type \in {"LEVEL_HIGH", "EDGE_RISING"} )
      => /\ ret[c].code = "VMM_OK"
         /\ \A d \in Cpus, g \in Gics :
              BankOf(hw, d, g, "enable") = BankOf(loc[c].snap, d, g, "enable")

\* line 64 (local 32 of a controller with offset 32) was enabled when its
\* type was set to edge-rising: it was disabled, configured and enabled
\* again, and its trigger bit is set
C4_Witness ==
    \E c \in Cpus :
      /\ Returned(c, "set_type")
      /\ loc[c].irq = 64
      /\ LocalOf(c) = U32(32)
      /\ loc[c].type = "EDGE_RISING"
      /\ loc[c].enabled
      /\ Len(trace[c]) = 5
      /\ 0 \in ReadWord(hw[loc[c].gic], c, "enable", 1)
      /\ 1 \in ReadWord(hw[loc[c].gic], c, "config", 2)

\* C5: set_trigger_type of a line with local number 0..15, or with a type
\* other than level-high and edge-rising, fails with invalid-argument and
\* accesses no register: the hardware is as it was before the call.
C5_SetTypeRejects ==
    \A c \in Cpus :
      ( /\ loc[c].op = "set_type"
        /\ \/ U32Lt(LocalOf(c), U32(16))
           \/ loc[c].type \notin {"LEVEL_HIGH", "EDGE_RISING"} )
      => /\ pc[c] = "done"
         /\ ret[c].code = "VMM_EINVALID"
         /\ trace[c] = << >>
         /\ hw = loc[c].snap

\* a valid type was refused for line 40, local 8 of a controller with
\* offset 32, while line 64 was enabled
C5_Witness ==
    \E c \in Cpus :
      /\ Returned(c, "set_type")
      /\ loc[c].irq = 40
      /\ LocalOf(c) = U32(8)
      /\ loc[c].type = "EDGE_RISING"
      /\ ret[c].code = "VMM_EINVALID"
      /\ 0 \in ReadWord(hw[loc[c].gic], c, "enable", 1)

\* the accesses gic_set_type has made when it has written the
\* configuration word: the two reads, the enable-clear write if the line
\* was read as enabled, and the configuration write
SetTypeOrdered(c, t) ==
    LET gic == gic_data[loc[c].gic]
        k == LocalOf(c)
        b == U32Mod(k, 32)
        conf == (GIC_DIST_CONFIG \div 4) + U32Div(k, 16)
        on == b \in t[2].bits
        i == IF on THEN 4 ELSE 3
    IN  /\ Len(t) >= i
        /\ t[1] = Acc("r", "dist", gic.dist_base, conf, t[1].bits, U32(0))
        /\ t[2] = Acc("r", "dist", gic.dist_base,
                      (GIC_DIST_ENABLE_SET \div 4) + U32Div(k, 32),
                      t[2].bits, U32(0))
        /\ on => t[3] = Acc("w", "dist", gic.dist_base,
                            (GIC_DIST_ENABLE_CLEAR \div 4) + U32Div(k, 32),
                            {b}, U32(0))
        /\ t[i] = Acc("w", "dist", gic.dist_base, conf, t[i].bits, U32(0))
        /\ t[i].bits \ {ConfBit(k)} = t[1].bits \ {ConfBit(k)}
        /\ (ConfBit(k) \in t[i].bits) <=> (loc[c].type = "EDGE_RISING")
        /\ IF on
             THEN Len(t) > i =>
                    /\ Len(t) = i + 1
                    /\ t[i + 1] = Acc("w", "dist", gic.dist_base,
                                      (GIC_DIST_ENABLE_SET \div 4)
                                        + U32Div(k, 32),
                                      {b}, U32(0))
             ELSE Len(t) = i

\* C19: an accepted set_trigger_type reads the configuration word and the
\* enable word; if the line was enabled it writes the enable-clear bit
\* before the configuration word and the enable-set bit after it, and
\* otherwise writes no enable register; the line is disabled when the
\* configuration word has just been written; the word written differs
\* from the word read only in the line's trigger bit, which is clear for
\* level-high and set for edge-rising.
C19_ConfigWhileDisabled ==
    \A c \in Cpus :
      LET h == hw[gic_data[loc[c].gic].dist_base]
          k == LocalOf(c)
          wasOn == LineEnabled(loc[c].snap[gic_data[loc[c].gic].dist_base],
                               c, k)
      IN  /\ (loc[c].op = "set_type" /\ pc[c] = "type_restore") =>
               /\ SetTypeOrdered(c, trace[c])
               /\ Len(trace[c]) = 4
               /\ ~LineEnabled(h, c, k)
          /\ (Returned(c, "set_type") /\ ret[c].code = "VMM_OK") =>
               /\ SetTypeOrdered(c, trace[c])
               /\ Len(trace[c]) = (IF loc[c].enabled THEN 5 ELSE 3)
               /\ wasOn => loc[c].enabled
               /\ LineEnabled(h, c, k) <=> wasOn

\* the type of line 64, enabled and edge-triggered, was set to level-high:
\* the line was disabled, the word written without its trigger bit, and
\* the line enabled again
C19_Witness ==
    \E c \in Cpus :
      /\ Returned(c, "set_type")
      /\ ret[c].code = "VMM_OK"
      /\ loc[c].irq = 64
      /\ loc[c].type = "LEVEL_HIGH"
      /\ Len(trace[c]) = 5
      /\ ConfBit(LocalOf(c)) \in trace[c][1].bits
      /\ ConfBit(LocalOf(c)) \notin trace[c][4].bits
      /\ LineEnabled(hw[gic_data[loc[c].gic].dist_base], c, LocalOf(c))

----------------------------------------------------------------------------
(* Routing: bootstrap, then set_affinity and raise, one at a time.         *)

\* the second controller, with the default irq_start, attaches lines 0..31
AffinityStarts == IF gic_cnt = 0 THEN { U32(33) } ELSE { U32(0) }

\* with irq_offset 32: local 8 and 32; line 0 is local 32 of the second
\* controller
AffinityLines == {0, 40, 64}

AffinityMasks == { {}, {7}, {8}, {3, 8} }

NextAffinity ==
    \/ /\ AllIdle
       /\ GicDevtreeInit(BootCpu, {TRUE}, {FALSE}, {FALSE}, AffinityStarts,
                         {1}, {TRUE})
    \/ \E c \in Cpus : BootStep(c)
    \/ GicDevtreeFinish(BootCpu, {50})
    \/ \E c \in Cpus, n \in AffinityLines, mask \in AffinityMasks :
         AllIdle /\ GicSetAffinity(c, n, mask)
    \/ \E c \in Cpus : GicSetAffinityWrite(c)
    \/ \E c \in Cpus, n \in AffinityLines, mask \in AffinityMasks :
         AllIdle /\ GicRaise(c, n, mask)
    \/ \E c \in Cpus : Return(c)

SpecAffinity == Init /\ [][NextAffinity]_vars

\* the first core of a mask: its least element
FirstCore(mask) == CHOOSE i \in mask : \A j \in mask : i <= j

RECURSIVE MaskLow16(_)
MaskLow16(mask) ==
    LET low == { i \in mask : i < 16 }
    IN  IF low = {}
          THEN 0
          ELSE LET top == CHOOSE i \in low : \A j \in low : j <= i
               IN  MaskLow16(low \ {top}) + (2 ^ top)

\* C11: raise is a memory barrier followed, with no register access between
\* them, by exactly one write, of cpu_mask << 16 | line number, to the
\* software-interrupt register of controller 0, whichever controller owns
\* the line; no register changes.
C11_RaiseSequence ==
    \A c \in Cpus :
      Returned(c, "raise") =>
        /\ Len(trace[c]) = 2
        /\ trace[c][1].k = "wmb"
        /\ trace[c][2] =
             [k |-> "w", region |-> "dist", unit |-> gic_data[0].dist_base,
              a |-> GIC_DIST_SOFTINT \div 4, bits |-> {},
              num |-> << MaskLow16(loc[c].mask), loc[c].irq >>]
        /\ ret[c].code = "void"
        /\ hw = loc[c].snap

\* line 0, owned by controller 1, was raised to cores 3 and 8: the value
\* 0x01080000 went to the software-interrupt register of controller 0
C11_Witness ==
    \E c \in Cpus :
      /\ Returned(c, "raise")
      /\ loc[c].irq = 0
      /\ loc[c].gic = 1
      /\ loc[c].mask = {3, 8}
      /\ trace[c][2].unit = gic_data[0].dist_base
      /\ gic_data[0].dist_base # gic_data[1].dist_base
      /\ trace[c][2].num = << 264, 0 >>

----------------------------------------------------------------------------
(* Concurrency: after bootstrap every core performs at most one chip       *)
(* operation, and the register accesses of the cores interleave.           *)

SmpStarts == IF gic_cnt = 0 THEN { U32(33) } ELSE { U32(0) }

\* with irq_offset 32: local 8 (banked), 32 and 33 (one enable word, one
\* target word)
SmpLines == {40, 64, 65}

SmpMasks == { {1}, {2}, {8} }

ChipOps == {"mask", "unmask", "eoi", "set_affinity", "raise"}

NextSmp ==
    \/ /\ AllIdle
       /\ GicDevtreeInit(BootCpu, {TRUE}, {FALSE}, BOOLEAN, SmpStarts, {1},
                         {TRUE})
    \/ \E c \in Cpus : BootStep(c)
    \/ GicDevtreeFinish(BootCpu, {50})
    \/ \E c \in Cpus : loc[c].op = "boot" /\ Return(c)
    \/ \E c \in Cpus, n \in SmpLines : GicMaskIrq(c, n)
    \/ \E c \in Cpus, n \in SmpLines : GicUnmaskIrq(c, n)
    \/ \E c \in Cpus, n \in SmpLines : GicEoiIrq(c, n)
    \/ \E c \in Cpus : GicEoiDir(c)
    \/ \E c \in Cpus, n \in SmpLines, mask \in SmpMasks :
         GicSetAffinity(c, n, mask)
    \/ \E c \in Cpus : GicSetAffinityWrite(c)
    \/ \E c \in Cpus, n \in SmpLines, mask \in SmpMasks : GicRaise(c, n, mask)

SpecSmp == Init /\ [][NextSmp]_vars

\* the registers after the operation core c has performed runs alone, from
\* begin to end, on the registers H
SerialEffect(H, c) ==
    LET n == loc[c].irq
        gic == gic_data[loc[c].gic]
        u == gic.dist_base
        t == LineWord(GIC_DIST_TARGET, gic, n, 4)
        lane == ByteLane((n % 4) * 8)
        bit == vmm_cpumask_first(loc[c].mask) + ((n % 4) * 8)
    IN  CASE loc[c].op = "mask" ->
               DistWrite(H, u, c, LineWord(GIC_DIST_ENABLE_CLEAR, gic, n, 32),
                         {n % 32})
          [] loc[c].op = "unmask" ->
               DistWrite(H, u, c, LineWord(GIC_DIST_ENABLE_SET, gic, n, 32),
                         {n % 32})
          [] loc[c].op = "set_affinity" /\ AffinityAccepts(loc[c].mask) ->
               DistWrite(H, u, c, t,
                         (DistRead(H, u, c, t, {}) \ lane) \cup {bit})
          [] OTHER -> H

\* cores a and b have each completed a chip operation, on different lines
\* of one controller, both begun on the same register contents, while every
\* other core stayed idle
ConcurrentPair(a, b) ==
    /\ a # b
    /\ pc[a] = "done" /\ pc[b] = "done"
    /\ loc[a].op \in ChipOps /\ loc[b].op \in ChipOps
    /\ loc[a].gic = loc[b].gic
    /\ loc[a].irq # loc[b].irq
    /\ loc[a].snap = loc[b].snap
    /\ \A c \in Cpus \ {a, b} : pc[c] = "idle"

\* C7: two operations among mask, unmask, end_of_interrupt, set_affinity
\* and raise, on different lines of one controller and on different cores,
\* leave the registers as one of the two serial executions does, however
\* their register accesses interleave.
C7_Serializable ==
    \A a, b \in Cpus :
      ConcurrentPair(a, b) =>
        \/ hw = SerialEffect(SerialEffect(loc[a].snap, a), b)
        \/ hw = SerialEffect(SerialEffect(loc[a].snap, b), a)

----------------------------------------------------------------------------
(* Bring-up: bootstrap of up to GIC_MAX_NR controllers in either           *)
(* end-of-interrupt mode, primary or cascaded, with or without a topology  *)
(* node, and the bootstrap of the other cores.                             *)

BringupStarts == IF gic_cnt = 0 THEN { U32(33) } ELSE { U32(65) }

BringupParents == IF gic_cnt = 0 THEN {FALSE} ELSE BOOLEAN

BringupFields == IF gic_cnt = 0 THEN {0, 1} ELSE {1}

\* a resolved parent_irq
BringupParentIrqs == {50}

NextBringup ==
    \/ /\ AllIdle
       /\ GicDevtreeInit(BootCpu, BOOLEAN, BringupParents, BOOLEAN,
                         BringupStarts, BringupFields, {TRUE})
    \/ \E c \in Cpus : BootStep(c)
    \/ GicDevtreeFinish(BootCpu, BringupParentIrqs)
    \/ \E c \in Cpus : AllIdle /\ GicSecondaryInit(c)
    \/ \E c \in Cpus : Return(c)

SpecBringup == Init /\ [][NextBringup]_vars

\* the cores on which gic_cpu_init has just run for a mapped controller
CpuInitDone ==
    { c \in Cpus :
        /\ \/ loc[c].op = "boot" /\ pc[c] = "finish"
           \/ loc[c].op = "secondary" /\ pc[c] = "done"
        /\ gic_data[loc[c].gic].dist_base \in Gics }

\* C13: after gic_cpu_init has run on a core, that core sees lines 16..31
\* disabled, lines 0..15 enabled, priority 0xa0 on every line 0..31, the
\* priority mask 0xf0 and the control register 0x201 in split mode, 1
\* otherwise; the control register is written last.
C13_CpuInitResult ==
    \A c \in CpuInitDone :
      LET gic == gic_data[loc[c].gic]
          h == hw[gic.dist_base]
      IN  /\ ReadWord(h, c, "enable", 0) = 0 .. 15
          /\ \A l \in 0 .. 31 :
               LineByte(ReadWord(h, c, "pri", l \div 4), l) = {5, 7}
          /\ hw[gic.cpu_base].primask[c] = 240
          /\ hw[gic.cpu_base].cpu_ctrl[c] = (IF gic.eoimode THEN 513 ELSE 1)
          /\ trace[c] # << >>
          /\ trace[c][Len(trace[c])].region = "cpu"
          /\ trace[c][Len(trace[c])].a = GIC_CPU_CTRL \div 4
          /\ \A i \in 1 .. (Len(trace[c]) - 1) :
               ~(trace[c][i].region = "cpu"
                 /\ trace[c][i].a = GIC_CPU_CTRL \div 4)

\* gic_cpu_init ran on a core other than the boot core, for a split-mode
\* controller whose banked registers that core found with every bit set
C13_Witness ==
    \E c \in CpuInitDone :
      /\ c # BootCpu
      /\ gic_data[loc[c].gic].eoimode
      /\ ReadWord(loc[c].snap[gic_data[loc[c].gic].dist_base], c,
                  "enable", 0) = Bits32
      /\ hw[gic_data[loc[c].gic].cpu_base].cpu_ctrl[c] = 513

\* the register writes a bootstrap on another core may make: the enable
\* words of lines 0..31, the priority words of lines 0..31 and the CPU
\* interface registers, all of controller 0
SecondaryWrite(w) ==
    /\ w.k = "w"
    /\ \/ /\ w.region = "dist"
          /\ w.unit = gic_data[0].dist_base
          /\ \/ w.a \in {GIC_DIST_ENABLE_SET \div 4, GIC_DIST_ENABLE_CLEAR \div 4}
             \/ \E l \in 0 .. 31 : w.a = (GIC_DIST_PRI \div 4) + (l \div 4)
       \/ /\ w.region = "cpu"
          /\ w.unit = gic_data[0].cpu_base

\* C14: a bootstrap on a core other than the boot core runs only
\* gic_cpu_init, against controller 0: it never enters gic_dist_init,
\* writes no distributor control, configuration or target register and no
\* enable bit of a line >= 32, registers no line, creates no controller
\* entry and leaves the controller count unchanged; the distributor is
\* configured by the boot core only.
C14_SecondaryOnlyCpuInit ==
    [][ /\ \A c \in Cpus \ {BootCpu} :
             (pc[c] # "idle" \/ pc'[c] # "idle") =>
               /\ pc'[c] \in {"idle", "cpu_init", "done"}
               /\ pc'[c] # "idle" => loc'[c].op = "secondary" /\ loc'[c].gic = 0
               /\ \A i \in 1 .. Len(trace'[c]) : SecondaryWrite(trace'[c][i])
               /\ gic_cnt' = gic_cnt
               /\ gic_data' = gic_data
               /\ host' = host
               /\ \A u \in DOMAIN hw :
                    /\ hw'[u].ctrl = hw[u].ctrl
                    /\ hw'[u].ctr = hw[u].ctr
                    /\ hw'[u].sh = hw[u].sh
                    /\ \A d \in Cpus \ {c} : hw'[u].pv[d] = hw[u].pv[d]
                    /\ hw'[u].pv[c]["config"] = hw[u].pv[c]["config"]
                    /\ hw'[u].pv[c]["target"] = hw[u].pv[c]["target"]
        /\ \A u \in DOMAIN hw :
             (hw'[u].ctrl # hw[u].ctrl \/ hw'[u].sh # hw[u].sh) =>
               /\ pc[BootCpu] # "idle" \/ pc'[BootCpu] # "idle"
               /\ loc[BootCpu].op = "boot" \/ loc'[BootCpu].op = "boot"
               /\ \A c \in Cpus \ {BootCpu} : pc[c] = "idle" /\ pc'[c] = "idle"
      ]_vars

\* a bootstrap on another core has completed after two controllers were
\* created, and changed that core's view of controller 0
C14_Witness ==
    \E c \in Cpus \ {BootCpu} :
      /\ Returned(c, "secondary")
      /\ gic_cnt = GIC_MAX_NR
      /\ loc[c].gic = 0
      /\ Len(trace[c]) = 12
      /\ hw[gic_data[0].dist_base].pv[c] # loc[c].snap[gic_data[0].dist_base].pv[c]

\* C15: a controller entry is written only at the index gic_cnt, which is
\* below GIC_MAX_NR; a bootstrap for a present node started when the
\* controller count has reached GIC_MAX_NR halts, with no table entry and
\* no register written, no line registered and the count unchanged.
C15_TableCapacityFatal ==
    [][ /\ \A i \in DOMAIN gic_data :
             gic_data'[i] # gic_data[i] => i = gic_cnt /\ i < GIC_MAX_NR
        /\ \A c \in Cpus :
             loc'[c].op = "boot" /\ loc'[c].boot => loc'[c].gic < GIC_MAX_NR
        /\ gic_cnt' \in 0 .. GIC_MAX_NR
        /\ ( /\ gic_cnt >= GIC_MAX_NR
             /\ pc[BootCpu] = "idle"
             /\ pc'[BootCpu] # "idle" \/ halted' ) =>
               /\ gic_data' = gic_data
               /\ hw' = hw
               /\ host' = host
               /\ gic_cnt' = gic_cnt
               /\ \/ halted' /\ pc' = pc
                  \/ ret'[BootCpu] = Ret("VMM_ENODEV")
      ]_vars

\* a third bootstrap was attempted after GIC_MAX_NR controllers were
\* created, and halted
C15_Witness ==
    /\ halted
    /\ gic_cnt = GIC_MAX_NR
    /\ pc[BootCpu] = "idle"
    /\ \A i \in Gics : gic_data[i].dist_base = i

\* the boot-core bootstraps that have called gic_cascade_irq
Cascading == { c \in Cpus : loc[c].op = "boot" /\ loc[c].cascaded }

\* C16: a bootstrap given a parent whose parent line cannot be resolved
\* registers the cascade handler against line 1023 and continues, the
\* controller being created and counted; with a resolved parent line the
\* handler is registered against that line with the new controller as its
\* argument.
C16_UnresolvedParentSentinel ==
    \A c \in Cascading :
      IF loc[c].resolved
        THEN ~halted =>
               /\ loc[c].parent_irq \in BringupParentIrqs
               /\ << loc[c].parent_irq, loc[c].gic >> \in handlers
        ELSE /\ loc[c].parent_irq = 1023
             /\ ~halted
             /\ << 1023, loc[c].gic >> \in handlers
             /\ gic_cnt = loc[c].gic + 1

----------------------------------------------------------------------------
(* Interrupt context: bootstrap, then set_trigger_type with one mask or    *)
(* unmask of the same line from an interrupt taken on the same core.       *)

NestedStarts == IF gic_cnt = 0 THEN { U32(33) } ELSE { U32(65) }

\* local 32 of the first controller, local 33 of the second
NestedLines == {64, 97}

NestedTypes == {"LEVEL_HIGH", "EDGE_RISING"}

NextNested ==
    \/ /\ AllIdle
       /\ GicDevtreeInit(BootCpu, {TRUE}, {FALSE}, {FALSE}, NestedStarts,
                         {1}, {TRUE})
    \/ \E c \in Cpus : BootStep(c)
    \/ GicDevtreeFinish(BootCpu, {50})
    \/ \E c \in Cpus, n \in NestedLines : AllIdle /\ GicMaskIrq(c, n)
    \/ \E c \in Cpus, n \in NestedLines : AllIdle /\ GicUnmaskIrq(c, n)
    \/ \E c \in Cpus, n \in NestedLines, type \in NestedTypes :
         AllIdle /\ GicSetType(c, n, type)
    \/ \E c \in Cpus : GicSetTypeEnabled(c)
    \/ \E c \in Cpus : GicSetTypeDisable(c)
    \/ \E c \in Cpus : GicSetTypeConfig(c)
    \/ \E c \in Cpus : GicSetTypeRestore(c)
    \/ \E c \in Cpus :
         NestedEnableWrite(c, GIC_DIST_ENABLE_CLEAR, "mask")
    \/ \E c \in Cpus :
         NestedEnableWrite(c, GIC_DIST_ENABLE_SET, "unmask")
    \/ \E c \in Cpus : Return(c)

SpecNested == Init /\ [][NextNested]_vars

\* C17: set_trigger_type is atomic with respect to a mask or unmask of
\* the same line called on the same core: when it has returned, the
\* line's enable state and trigger bit are those of a serial execution of
\* the two operations, in which the mask or unmask decides the enable
\* state and set_trigger_type the trigger bit.
C17_SetTypeAtomic ==
    \A c \in Cpus :
      ( /\ Returned(c, "set_type")
        /\ ret[c].code = "VMM_OK"
        /\ loc[c].nested # "none" )
      => LET h == hw[gic_data[loc[c].gic].dist_base]
             k == loc[c].num
         IN  /\ (EnableBit(k) \in ReadWord(h, c, "enable", U32Div(k, 32)))
                  <=> (loc[c].nested = "unmask")
             /\ (ConfBit(k) \in ReadWord(h, c, "config", U32Div(k, 16)))
                  <=> (loc[c].type = "EDGE_RISING")

----------------------------------------------------------------------------
(* Masking: bootstrap, then mask and unmask of registered lines, one       *)
(* operation at a time.                                                    *)

MaskStarts == IF gic_cnt = 0 THEN { U32(33) } ELSE { U32(65) }

\* with irq_offset 32: line 8 is registered below the offset, 40 is local
\* 8, 64 local 32, 65 local 33; with irq_offset 64: 97 is local 33
MaskLines == {8, 40, 64, 65, 97}

NextMask ==
    \/ /\ AllIdle
       /\ GicDevtreeInit(BootCpu, {TRUE}, {FALSE}, {FALSE}, MaskStarts, {1},
                         {TRUE})
    \/ \E c \in Cpus : BootStep(c)
    \/ GicDevtreeFinish(BootCpu, {50})
    \/ \E c \in Cpus, n \in MaskLines : AllIdle /\ GicMaskIrq(c, n)
    \/ \E c \in Cpus, n \in MaskLines : AllIdle /\ GicUnmaskIrq(c, n)
    \/ \E c \in Cpus : Return(c)

SpecMask == Init /\ [][NextMask]_vars

\* C18: mask of a registered line with local number k writes the single
\* bit k mod 32 to word k / 32 of the enable-clear bank and unmask writes
\* it to the same word of the enable-set bank; after mask the line is
\* disabled, after unmask it is enabled, and the enable bits of all other
\* lines are as before the call.
C18_MaskUnmaskEffect ==
    \A c \in Cpus :
      (Returned(c, "mask") \/ Returned(c, "unmask")) =>
        LET gic == gic_data[loc[c].gic]
            k == LocalOf(c)
            w == U32Div(k, 32)
            b == U32Mod(k, 32)
            bank == IF loc[c].op = "mask" THEN GIC_DIST_ENABLE_CLEAR
                    ELSE GIC_DIST_ENABLE_SET
        IN  /\ trace[c] = << Acc("w", "dist", gic.dist_base,
                                 (bank \div 4) + w, {b}, U32(0)) >>
            /\ LineEnabled(hw[gic.dist_base], c, k) <=> (loc[c].op = "unmask")
            /\ \A d \in Cpus, g \in Gics, x \in 0 .. (BankWords("enable") - 1) :
                 LET own == IF g = gic.dist_base /\ x = w THEN {b} ELSE {}
                 IN  ReadWord(hw[g], d, "enable", x) \ own
                       = ReadWord(loc[c].snap[g], d, "enable", x) \ own

\* C20: an accepted set_affinity whose mask has first core f < 8 returns
\* success; it reads and writes the target word at the local line number
\* rounded down to a multiple of 4; afterwards the target byte of the line
\* is exactly bit f, and the target bytes of the other three lines of the
\* word are as before the call.
C20_AffinityTargetByte ==
    \A c \in Cpus :
      ( /\ Returned(c, "set_affinity")
        /\ loc[c].mask # {}
        /\ FirstCore(loc[c].mask) < 8 )
      => LET gic == gic_data[loc[c].gic]
             k == LocalOf(c)
             a == (GIC_DIST_TARGET \div 4) + U32Div(k, 4)
             now == ReadWord(hw[gic.dist_base], c, "target", U32Div(k, 4))
             was == ReadWord(loc[c].snap[gic.dist_base], c, "target",
                             U32Div(k, 4))
         IN  /\ ret[c].code = "VMM_OK"
             /\ Len(trace[c]) = 2
             /\ trace[c][1].k = "r" /\ trace[c][1].a = a
             /\ trace[c][2].k = "w" /\ trace[c][2].a = a
             /\ U32Lt(k, U32(HwLines(hw[gic.dist_base].ctr)))
             /\ LineByte(now, U32Mod(k, 4)) = {FirstCore(loc[c].mask)}
             /\ \A j \in (0 .. 3) \ {U32Mod(k, 4)} :
                  LineByte(now, j) = LineByte(was, j)

====
